---------------------------- MODULE Spec2Model ----------------------------
(***************************************************************************)
(* A model of the Valgrind suppression-file parser and printer of          *)
(* src/src/valgrind.rs.                                                    *)
(*                                                                         *)
(* Text is modelled character by character: a string is a sequence of     *)
(* one-character strings, so trimming, prefix tests, splitting, number     *)
(* parsing and formatting are computed the way the code computes them.     *)
(***************************************************************************)
EXTENDS Integers, Sequences, FiniteSets, TLC

VARIABLES
    state,          \* parse: the ParseState of the loop
    lineno,         \* parse: the line counter
    suppressions,   \* parse: the Vec<Suppression> accumulated so far
    result,         \* parse: NotReturned, or the Result the call returned
    consumed,       \* history: the raw lines the source has yielded so far
    io_failed,      \* history: the source yielded an Err instead of a line
    buf,            \* parse over a buffer in memory: the lines still to read
    orig,           \* round trip: the constructed Suppression
    text,           \* round trip / kind check: the text handed to parse
    reparsed,       \* round trip / kind check: what parse returned for text
    kind_in,        \* kind check: the tool names and category drawn
    self_,          \* add_all: the receiving Suppressions
    other,          \* add_all: the argument Suppressions
    self_old,       \* add_all: the receiver before the call (history)
    first,          \* concatenation: the text of the first input
    second          \* concatenation: the text of the second input

vars == <<state, lineno, suppressions, result, consumed, io_failed, buf,
          orig, text, reparsed, kind_in, self_, other, self_old,
          first, second>>

parseVars == <<state, lineno, suppressions, result, consumed, io_failed, buf>>
rtVars    == <<orig, text, reparsed, kind_in>>
collVars  == <<self_, other, self_old>>
catVars   == <<first, second>>

----------------------------------------------------------------------------
(* Bounds of the model.                                                    *)

MaxLines  == 6   \* lines a streamed source yields before it must end
MaxExtra  == 2   \* extra-info lines collected in one block
MaxFrames == 2   \* frames collected in one block
MaxN      == 12  \* largest Addr/Value parameter constructed
MaxColl   == 2   \* records in a collection handed to add_all

----------------------------------------------------------------------------
(* Strings: slices, trimming, searching, splitting.                        *)

S_open     == <<"{">>
S_close    == <<"}">>
S_dots     == <<".", ".", ".">>
S_obj      == <<"o", "b", "j", ":">>
S_fun      == <<"f", "u", "n", ":">>
S_hash     == <<"#">>
S_Memcheck == <<"M", "e", "m", "c", "h", "e", "c", "k">>
S_Addr     == <<"A", "d", "d", "r">>
S_Cond     == <<"C", "o", "n", "d">>
S_Free     == <<"F", "r", "e", "e">>
S_Leak     == <<"L", "e", "a", "k">>
S_Overlap  == <<"O", "v", "e", "r", "l", "a", "p">>
S_Param    == <<"P", "a", "r", "a", "m">>
S_Value    == <<"V", "a", "l", "u", "e">>
S_indent   == <<" ", " ", " ">>
S_nl       == <<"\n">>

WhiteSpace == {" ", "\t", "\n", "\r"}

Digits == <<"0", "1", "2", "3", "4", "5", "6", "7", "8", "9">>

\* &str::slice_from(n) and &str::slice_to(n), n a 0-based byte position
slice_from(s, n) == SubSeq(s, n + 1, Len(s))
slice_to(s, n)   == SubSeq(s, 1, n)

starts_with(s, p) == Len(s) >= Len(p) /\ SubSeq(s, 1, Len(p)) = p

contains_char(s, c) == \E i \in 1..Len(s) : s[i] = c

RECURSIVE trim_left(_)
trim_left(s) ==
    IF s # <<>> /\ Head(s) \in WhiteSpace THEN trim_left(Tail(s)) ELSE s

RECURSIVE trim_right(_)
trim_right(s) ==
    IF s # <<>> /\ s[Len(s)] \in WhiteSpace
    THEN trim_right(SubSeq(s, 1, Len(s) - 1))
    ELSE s

trim(s) == trim_right(trim_left(s))

None    == [some |-> FALSE]
Some(v) == [some |-> TRUE, val |-> v]

\* &str::find(c): the 0-based position of the first c, if any
find(s, c) ==
    IF contains_char(s, c)
    THEN Some((CHOOSE i \in 1..Len(s) :
                  s[i] = c /\ \A j \in 1..(i - 1) : s[j] # c) - 1)
    ELSE None

\* &str::split(c), collected: the pieces between the separators, in order;
\* a string without separator (the empty one too) is one piece
RECURSIVE split(_, _)
split(s, c) ==
    LET p == find(s, c)
    IN  IF p.some
        THEN <<slice_to(s, p.val)>> \o split(slice_from(s, p.val + 1), c)
        ELSE <<s>>

----------------------------------------------------------------------------
(* Numbers: from_str::<uint> and the {:u} format.                          *)

DigitVal(c) == (CHOOSE i \in 1..10 : Digits[i] = c) - 1

IsDigit(c) == \E i \in 1..10 : Digits[i] = c

RECURSIVE DigitsValue(_, _)
DigitsValue(s, acc) ==
    IF s = <<>> THEN acc
    ELSE DigitsValue(Tail(s), acc * 10 + DigitVal(Head(s)))

\* from_str::<uint>(s): the value of a non-empty string of decimal digits,
\* None for the empty string and for a string with any other character.
\* (Digit strings here are at most a few characters, far below the word.)
from_str(s) ==
    IF s # <<>> /\ \A i \in 1..Len(s) : IsDigit(s[i])
    THEN Some(DigitsValue(s, 0))
    ELSE None

\* format {:u}: the decimal digits of n, no sign, no padding
RECURSIVE fmt_u(_)
fmt_u(n) ==
    IF n < 10 THEN <<Digits[n + 1]>>
    ELSE fmt_u(n \div 10) \o <<Digits[(n % 10) + 1]>>

----------------------------------------------------------------------------
(* The data model.                                                         *)

ParseError(l, m) == [lineno |-> l, message |-> m]

\* String::from_str(literal) and format!(literal with one {}, argument)
Message(m)          == [fmt |-> m, arg |-> <<>>]
MessageWith(m, arg) == [fmt |-> m, arg |-> arg]

FrameWildcard == [frame |-> "FrameWildcard", glob |-> <<>>]
ObjFrame(g)   == [frame |-> "ObjFrame", glob |-> g]
FunFrame(g)   == [frame |-> "FunFrame", glob |-> g]

MemcheckAddr(n)  == [type |-> "MemcheckAddr", n |-> n]
MemcheckCond     == [type |-> "MemcheckCond"]
MemcheckFree     == [type |-> "MemcheckFree"]
MemcheckLeak     == [type |-> "MemcheckLeak"]
MemcheckOverlap  == [type |-> "MemcheckOverlap"]
MemcheckParam    == [type |-> "MemcheckParam"]
MemcheckValue(n) == [type |-> "MemcheckValue", n |-> n]
OtherType(t, s)  == [type |-> "OtherType", tool_name |-> t,
                     suppression_type |-> s]

Suppression(nm, ty, xi, fr) ==
    [name |-> nm, type_ |-> ty, opt_extra_info |-> xi, frames |-> fr]

Suppressions(v) == [suppressions_ |-> v]

BeforeOpeningBrace == [st |-> "BeforeOpeningBrace"]
AfterOpeningBrace(obl) ==
    [st |-> "AfterOpeningBrace", opening_brace_lineno |-> obl]
HaveName(obl, nm) ==
    [st |-> "HaveName", opening_brace_lineno |-> obl, name |-> nm]
HaveSuppressionType(obl, nm, tn, sty, xi) ==
    [st |-> "HaveSuppressionType", opening_brace_lineno |-> obl,
     name |-> nm, tool_names |-> tn, suppression_type |-> sty,
     opt_extra_info |-> xi]
HaveOptExtraInfo(obl, nm, tn, sty, xi, fr) ==
    [st |-> "HaveOptExtraInfo", opening_brace_lineno |-> obl,
     name |-> nm, tool_names |-> tn, suppression_type |-> sty,
     opt_extra_info |-> xi, frames |-> fr]

\* Result<T, E>; NotReturned while the call is still running
Ok(v)  == [returned |-> TRUE, ok |-> TRUE, val |-> v]
Err(e) == [returned |-> TRUE, ok |-> FALSE, err |-> e]
NotReturned == [returned |-> FALSE]

----------------------------------------------------------------------------
(* Suppressions::parse: the match arms of the loop body.  An arm either    *)
(* yields the next ParseState (Continue, with the records it pushed) or    *)
(* returns from parse with a ParseError (Return).                          *)

Continue(s, emitted) == [ret |-> FALSE, state |-> s, emit |-> emitted]
Return(e)            == [ret |-> TRUE, err |-> e]

\* the inner if-chain: the type_ of a category of the tool "Memcheck"
MemcheckType_valueOffset(tool_name, suppression_type) ==
    IF starts_with(suppression_type, S_Addr)
    THEN LET n == from_str(slice_from(suppression_type, 4))
         IN  IF n.some THEN MemcheckAddr(n.val)
             ELSE OtherType(tool_name, suppression_type)
    ELSE IF suppression_type = S_Cond THEN MemcheckCond
    ELSE IF suppression_type = S_Free THEN MemcheckFree
    ELSE IF suppression_type = S_Leak THEN MemcheckLeak
    ELSE IF suppression_type = S_Overlap THEN MemcheckOverlap
    ELSE IF suppression_type = S_Param THEN MemcheckParam
    ELSE IF starts_with(suppression_type, S_Value)
    THEN LET n == from_str(slice_from(suppression_type, 4))
         IN  IF n.some THEN MemcheckValue(n.val)
             ELSE OtherType(tool_name, suppression_type)
    ELSE OtherType(tool_name, suppression_type)

MemcheckType(tool_name, suppression_type) ==
    IF starts_with(suppression_type, S_Addr)
    THEN LET n == from_str(slice_from(suppression_type, 4))
         IN  IF n.some THEN MemcheckAddr(n.val)
             ELSE OtherType(tool_name, suppression_type)
    ELSE IF suppression_type = S_Cond THEN MemcheckCond
    ELSE IF suppression_type = S_Free THEN MemcheckFree
    ELSE IF suppression_type = S_Leak THEN MemcheckLeak
    ELSE IF suppression_type = S_Overlap THEN MemcheckOverlap
    ELSE IF suppression_type = S_Param THEN MemcheckParam
    ELSE IF starts_with(suppression_type, S_Value)
    THEN LET n == from_str(slice_from(suppression_type, 5))
         IN  IF n.some THEN MemcheckValue(n.val)
             ELSE OtherType(tool_name, suppression_type)
    ELSE OtherType(tool_name, suppression_type)

ResolveType_anyTool(tool_name, suppression_type) ==
    MemcheckType(tool_name, suppression_type)

\* the type_ computed for one tool name at the end of a block
ResolveType(tool_name, suppression_type) ==
    IF tool_name = S_Memcheck
    THEN MemcheckType(tool_name, suppression_type)
    ELSE OtherType(tool_name, suppression_type)

EmitSuppressions_firstToolOnly(s) ==
    [i \in 1..Len(s.tool_names) |->
        Suppression(s.name,
                    ResolveType(s.tool_names[1], s.suppression_type),
                    s.opt_extra_info,
                    s.frames)]

\* tool_names.iter().map(|tool_name| Suppression {..}): one record per
\* tool name, in the order of tool_names
EmitSuppressions(s) ==
    [i \in 1..Len(s.tool_names) |->
        Suppression(s.name,
                    ResolveType(s.tool_names[i], s.suppression_type),
                    s.opt_extra_info,
                    s.frames)]

ArmBeforeOpeningBrace_firstLine(s, ln, trimmed_line) ==
    IF trimmed_line = S_open
    THEN Continue(AfterOpeningBrace(1), <<>>)
    ELSE IF starts_with(trimmed_line, S_open)
    THEN Return(ParseError(ln,
             Message("expecting an opening brace on its own line")))
    ELSE Return(ParseError(ln, Message("expecting an opening brace")))

ArmBeforeOpeningBrace_sameMessage(s, ln, trimmed_line) ==
    IF trimmed_line = S_open
    THEN Continue(AfterOpeningBrace(ln), <<>>)
    ELSE Return(ParseError(ln, Message("expecting an opening brace")))

ArmBeforeOpeningBrace(s, ln, trimmed_line) ==
    IF trimmed_line = S_open
    THEN Continue(AfterOpeningBrace(ln), <<>>)
    ELSE IF starts_with(trimmed_line, S_open)
    THEN Return(ParseError(ln,
             Message("expecting an opening brace on its own line")))
    ELSE Return(ParseError(ln, Message("expecting an opening brace")))

ArmAfterOpeningBrace_reopens(s, ln, trimmed_line) ==
    IF trimmed_line = S_close
    THEN Continue(BeforeOpeningBrace, <<>>)
    ELSE IF trimmed_line = S_open
    THEN Continue(AfterOpeningBrace(ln), <<>>)
    ELSE IF contains_char(trimmed_line, "}")
    THEN Return(ParseError(ln,
             Message("the suppression name cannot contain a closing brace '}'")))
    ELSE Continue(HaveName(s.opening_brace_lineno, trimmed_line), <<>>)

ArmAfterOpeningBrace_braceInName(s, ln, trimmed_line) ==
    IF trimmed_line = S_close
    THEN Continue(BeforeOpeningBrace, <<>>)
    ELSE Continue(HaveName(s.opening_brace_lineno, trimmed_line), <<>>)

ArmAfterOpeningBrace_noEmptyBlock(s, ln, trimmed_line) ==
    IF contains_char(trimmed_line, "}")
    THEN Return(ParseError(ln,
             Message("the suppression name cannot contain a closing brace '}'")))
    ELSE Continue(HaveName(s.opening_brace_lineno, trimmed_line), <<>>)

ArmAfterOpeningBrace(s, ln, trimmed_line) ==
    IF trimmed_line = S_close
    THEN Continue(BeforeOpeningBrace, <<>>)
    ELSE IF contains_char(trimmed_line, "}")
    THEN Return(ParseError(ln,
             Message("the suppression name cannot contain a closing brace '}'")))
    ELSE Continue(HaveName(s.opening_brace_lineno, trimmed_line), <<>>)

ArmHaveName_lastColon(s, ln, trimmed_line) ==
    LET colons == {i \in 1..Len(trimmed_line) : trimmed_line[i] = ":"}
    IN  IF colons = {}
        THEN Return(ParseError(ln, Message("no suppression type was found")))
        ELSE LET last == (CHOOSE i \in colons : \A j \in colons : j <= i) - 1
             IN  Continue(
                     HaveSuppressionType(
                         s.opening_brace_lineno,
                         s.name,
                         split(slice_to(trimmed_line, last), ","),
                         slice_from(trimmed_line, last + 1),
                         None),
                     <<>>)

ArmHaveName(s, ln, trimmed_line) ==
    LET colon_pos == find(trimmed_line, ":")
    IN  IF ~colon_pos.some
        THEN Return(ParseError(ln, Message("no suppression type was found")))
        ELSE Continue(
                 HaveSuppressionType(
                     s.opening_brace_lineno,
                     s.name,
                     split(slice_to(trimmed_line, colon_pos.val), ","),
                     slice_from(trimmed_line, colon_pos.val + 1),
                     None),
                 <<>>)

ArmHaveSuppressionType_emitsOnClose(s, ln, trimmed_line) ==
    IF trimmed_line = S_dots
    THEN Continue(HaveOptExtraInfo(s.opening_brace_lineno, s.name,
                      s.tool_names, s.suppression_type, s.opt_extra_info,
                      <<FrameWildcard>>), <<>>)
    ELSE IF starts_with(trimmed_line, S_obj)
    THEN Continue(HaveOptExtraInfo(s.opening_brace_lineno, s.name,
                      s.tool_names, s.suppression_type, s.opt_extra_info,
                      <<ObjFrame(trim_left(slice_from(trimmed_line, 4)))>>),
                  <<>>)
    ELSE IF starts_with(trimmed_line, S_fun)
    THEN Continue(HaveOptExtraInfo(s.opening_brace_lineno, s.name,
                      s.tool_names, s.suppression_type, s.opt_extra_info,
                      <<ObjFrame(trim_left(slice_from(trimmed_line, 4)))>>),
                  <<>>)
    ELSE IF trimmed_line = S_close
    THEN Continue(BeforeOpeningBrace,
                  [i \in 1..Len(s.tool_names) |->
                      Suppression(s.name,
                          ResolveType(s.tool_names[i], s.suppression_type),
                          s.opt_extra_info, <<>>)])
    ELSE LET extra_info ==
                 IF s.opt_extra_info.some
                 THEN Append(s.opt_extra_info.val, trimmed_line)
                 ELSE <<trimmed_line>>
         IN  Continue(HaveSuppressionType(s.opening_brace_lineno, s.name,
                          s.tool_names, s.suppression_type,
                          Some(extra_info)), <<>>)

ArmHaveSuppressionType_prependsExtraInfo(s, ln, trimmed_line) ==
    IF trimmed_line = S_dots
    THEN Continue(HaveOptExtraInfo(s.opening_brace_lineno, s.name,
                      s.tool_names, s.suppression_type, s.opt_extra_info,
                      <<FrameWildcard>>), <<>>)
    ELSE IF starts_with(trimmed_line, S_obj) \/ starts_with(trimmed_line, S_fun)
    THEN Continue(HaveOptExtraInfo(s.opening_brace_lineno, s.name,
                      s.tool_names, s.suppression_type, s.opt_extra_info,
                      <<ObjFrame(trim_left(slice_from(trimmed_line, 4)))>>),
                  <<>>)
    ELSE IF trimmed_line = S_close
    THEN Continue(BeforeOpeningBrace, <<>>)
    ELSE LET extra_info ==
                 IF s.opt_extra_info.some
                 THEN <<trimmed_line>> \o s.opt_extra_info.val
                 ELSE <<trimmed_line>>
         IN  Continue(HaveSuppressionType(s.opening_brace_lineno, s.name,
                          s.tool_names, s.suppression_type,
                          Some(extra_info)), <<>>)

ArmHaveSuppressionType(s, ln, trimmed_line) ==
    IF trimmed_line = S_dots
    THEN Continue(HaveOptExtraInfo(s.opening_brace_lineno, s.name,
                      s.tool_names, s.suppression_type, s.opt_extra_info,
                      <<FrameWildcard>>), <<>>)
    ELSE IF starts_with(trimmed_line, S_obj)
    THEN Continue(HaveOptExtraInfo(s.opening_brace_lineno, s.name,
                      s.tool_names, s.suppression_type, s.opt_extra_info,
                      <<ObjFrame(trim_left(slice_from(trimmed_line, 4)))>>),
                  <<>>)
    ELSE IF starts_with(trimmed_line, S_fun)
    THEN Continue(HaveOptExtraInfo(s.opening_brace_lineno, s.name,
                      s.tool_names, s.suppression_type, s.opt_extra_info,
                      <<ObjFrame(trim_left(slice_from(trimmed_line, 4)))>>),
                  <<>>)
    ELSE IF trimmed_line = S_close
    THEN Continue(BeforeOpeningBrace, <<>>)
    ELSE LET extra_info ==
                 IF s.opt_extra_info.some
                 THEN Append(s.opt_extra_info.val, trimmed_line)
                 ELSE <<trimmed_line>>
         IN  Continue(HaveSuppressionType(s.opening_brace_lineno, s.name,
                          s.tool_names, s.suppression_type,
                          Some(extra_info)), <<>>)

ArmHaveOptExtraInfo_extraInfoAfterFrame(s, ln, trimmed_line) ==
    IF trimmed_line = S_dots
    THEN Continue([s EXCEPT !.frames = Append(@, FrameWildcard)], <<>>)
    ELSE IF starts_with(trimmed_line, S_obj)
    THEN Continue([s EXCEPT !.frames =
                      Append(@, ObjFrame(trim_left(slice_from(trimmed_line, 4))))],
                  <<>>)
    ELSE IF starts_with(trimmed_line, S_fun)
    THEN Continue([s EXCEPT !.frames =
                      Append(@, FunFrame(trim_left(slice_from(trimmed_line, 4))))],
                  <<>>)
    ELSE IF trimmed_line = S_close
    THEN Continue(BeforeOpeningBrace, EmitSuppressions(s))
    ELSE Continue([s EXCEPT !.opt_extra_info =
                      IF @.some THEN Some(Append(@.val, trimmed_line))
                      ELSE Some(<<trimmed_line>>)], <<>>)

ArmHaveOptExtraInfo_funAsObj(s, ln, trimmed_line) ==
    IF trimmed_line = S_dots
    THEN Continue([s EXCEPT !.frames = Append(@, FrameWildcard)], <<>>)
    ELSE IF starts_with(trimmed_line, S_obj) \/ starts_with(trimmed_line, S_fun)
    THEN Continue([s EXCEPT !.frames =
                      Append(@, ObjFrame(trim_left(slice_from(trimmed_line, 4))))],
                  <<>>)
    ELSE IF trimmed_line = S_close
    THEN Continue(BeforeOpeningBrace, EmitSuppressions(s))
    ELSE Return(ParseError(ln, Message("invalid calling context line")))

ArmHaveOptExtraInfo(s, ln, trimmed_line) ==
    IF trimmed_line = S_dots
    THEN Continue([s EXCEPT !.frames = Append(@, FrameWildcard)], <<>>)
    ELSE IF starts_with(trimmed_line, S_obj)
    THEN Continue([s EXCEPT !.frames =
                      Append(@, ObjFrame(trim_left(slice_from(trimmed_line, 4))))],
                  <<>>)
    ELSE IF starts_with(trimmed_line, S_fun)
    THEN Continue([s EXCEPT !.frames =
                      Append(@, FunFrame(trim_left(slice_from(trimmed_line, 4))))],
                  <<>>)
    ELSE IF trimmed_line = S_close
    THEN Continue(BeforeOpeningBrace, EmitSuppressions(s))
    ELSE Return(ParseError(ln, Message("invalid calling context line")))

extend_front(v, items) == items \o v

\* Vec::extend(iterator): the items are pushed after the elements the
\* vector holds, in the order the iterator yields them
extend(v, items) == v \o items

IsSkipped_blankOnly(trimmed_line) == trimmed_line = <<>>

\* the test that guards the match: blank and comment lines are skipped
IsSkipped(trimmed_line) ==
    trimmed_line = <<>> \/ starts_with(trimmed_line, S_hash)

\* state = match state { .. }
MatchState(s, ln, trimmed_line) ==
    CASE s.st = "BeforeOpeningBrace" -> ArmBeforeOpeningBrace(s, ln, trimmed_line)
      [] s.st = "AfterOpeningBrace" -> ArmAfterOpeningBrace(s, ln, trimmed_line)
      [] s.st = "HaveName" -> ArmHaveName(s, ln, trimmed_line)
      [] s.st = "HaveSuppressionType" -> ArmHaveSuppressionType(s, ln, trimmed_line)
      [] s.st = "HaveOptExtraInfo" -> ArmHaveOptExtraInfo(s, ln, trimmed_line)

EndOfInputResult_lastLine(s, supps) ==
    CASE s.st = "AfterOpeningBrace" ->
            Err(ParseError(s.opening_brace_lineno + 1,
                Message("unexpectedly encountered EOF while parsing a suppression")))
      [] s.st \in {"HaveName", "HaveSuppressionType", "HaveOptExtraInfo"} ->
            Err(ParseError(s.opening_brace_lineno + 1,
                MessageWith("unexpectedly encountered EOF while parsing the suppression named '{}'",
                            s.name)))
      [] OTHER -> Ok(Suppressions(supps))

EndOfInputResult_bestEffort(s, supps) == Ok(Suppressions(supps))

\* the match on the final state, after the loop
EndOfInputResult(s, supps) ==
    CASE s.st = "AfterOpeningBrace" ->
            Err(ParseError(s.opening_brace_lineno,
                Message("unexpectedly encountered EOF while parsing a suppression")))
      [] s.st \in {"HaveName", "HaveSuppressionType", "HaveOptExtraInfo"} ->
            Err(ParseError(s.opening_brace_lineno,
                MessageWith("unexpectedly encountered EOF while parsing the suppression named '{}'",
                            s.name)))
      [] OTHER -> Ok(Suppressions(supps))


----------------------------------------------------------------------------
(* Suppressions::parse reading from a streamed source: one action per      *)
(* iteration of the loop, by the arm taken.                                *)

\* the lines a streamed source may yield, as Buffer::lines() hands them out
\* (with their line terminator, when they have one)
LineSet ==
    { <<"{">>,
      <<" ", "{", "\n">>,
      <<"}", "\n">>,
      <<"\n">>,
      <<" ", "#", "c", "\n">>,
      <<" ", " ", "n", " ", "\n">>,
      <<"{", "x">>,
      <<"a", "}">>,
      S_Memcheck \o <<",", "d", "r", "d", ":">> \o S_Leak \o <<"\n">>,
      S_Memcheck \o <<":">> \o S_Addr \o <<"4">>,
      <<" ">> \o S_dots,
      S_obj \o <<"a", ":", "b", "\n">>,
      S_fun \o <<" ", "b">> }

\* the description of the error a failing read reports
IoErrorDesc == <<"i", "o">>

Running == result = NotReturned

\* the source has yielded fewer than MaxLines lines, and the block being
\* read stays within MaxExtra extra-info lines and MaxFrames frames
WithinBounds(s) ==
    /\ s.st = "HaveSuppressionType" /\ s.opt_extra_info.some
          => Len(s.opt_extra_info.val) <= MaxExtra
    /\ s.st = "HaveOptExtraInfo" => Len(s.frames) <= MaxFrames

\* the effect of one Ok(line) iteration whose line is not skipped
TakeArm(line, out) ==
    /\ ~out.ret => WithinBounds(out.state)
    /\ lineno' = lineno + 1
    /\ consumed' = Append(consumed, line)
    /\ IF out.ret
       THEN /\ result' = Err(out.err)
            /\ UNCHANGED <<state, suppressions>>
       ELSE /\ state' = out.state
            /\ suppressions' = extend(suppressions, out.emit)
            /\ UNCHANGED result
    /\ UNCHANGED <<io_failed, buf, rtVars, collVars, catVars>>

\* Err(e) => return Err(ParseError { lineno: lineno, .. })
ReadFails ==
    /\ Running
    /\ Len(consumed) < MaxLines
    /\ result' = Err(ParseError(lineno,
                     MessageWith("IoError returned: {}", IoErrorDesc)))
    /\ io_failed' = TRUE
    /\ UNCHANGED <<state, lineno, suppressions, consumed, buf, rtVars, collVars, catVars>>

\* a blank or comment line: only the line counter moves
ReadSkippedLine ==
    /\ Running
    /\ Len(consumed) < MaxLines
    /\ \E line \in LineSet :
          /\ IsSkipped(trim(line))
          /\ lineno' = lineno + 1
          /\ consumed' = Append(consumed, line)
    /\ UNCHANGED <<state, suppressions, result, io_failed, buf, rtVars, collVars, catVars>>

ReadBeforeOpeningBrace ==
    /\ Running
    /\ Len(consumed) < MaxLines
    /\ state.st = "BeforeOpeningBrace"
    /\ \E line \in LineSet :
          /\ ~IsSkipped(trim(line))
          /\ TakeArm(line, ArmBeforeOpeningBrace(state, lineno + 1, trim(line)))

ReadAfterOpeningBrace ==
    /\ Running
    /\ Len(consumed) < MaxLines
    /\ state.st = "AfterOpeningBrace"
    /\ \E line \in LineSet :
          /\ ~IsSkipped(trim(line))
          /\ TakeArm(line, ArmAfterOpeningBrace(state, lineno + 1, trim(line)))

ReadHaveName ==
    /\ Running
    /\ Len(consumed) < MaxLines
    /\ state.st = "HaveName"
    /\ \E line \in LineSet :
          /\ ~IsSkipped(trim(line))
          /\ TakeArm(line, ArmHaveName(state, lineno + 1, trim(line)))

ReadHaveSuppressionType ==
    /\ Running
    /\ Len(consumed) < MaxLines
    /\ state.st = "HaveSuppressionType"
    /\ \E line \in LineSet :
          /\ ~IsSkipped(trim(line))
          /\ TakeArm(line, ArmHaveSuppressionType(state, lineno + 1, trim(line)))

ReadHaveOptExtraInfo ==
    /\ Running
    /\ Len(consumed) < MaxLines
    /\ state.st = "HaveOptExtraInfo"
    /\ \E line \in LineSet :
          /\ ~IsSkipped(trim(line))
          /\ TakeArm(line, ArmHaveOptExtraInfo(state, lineno + 1, trim(line)))

\* the source is exhausted: the match on the final state
EndOfInput ==
    /\ Running
    /\ result' = EndOfInputResult(state, suppressions)
    /\ UNCHANGED <<state, lineno, suppressions, consumed, io_failed, buf,
                   rtVars, collVars, catVars>>

Idle == <<>>

Init ==
    /\ state = BeforeOpeningBrace
    /\ lineno = 0
    /\ suppressions = <<>>
    /\ result = NotReturned
    /\ consumed = <<>>
    /\ io_failed = FALSE
    /\ buf = Idle
    /\ orig = Idle /\ text = Idle /\ reparsed = Idle /\ kind_in = Idle
    /\ self_ = Idle /\ other = Idle /\ self_old = Idle
    /\ first = Idle /\ second = Idle

Next ==
    \/ ReadFails
    \/ ReadSkippedLine
    \/ ReadBeforeOpeningBrace
    \/ ReadAfterOpeningBrace
    \/ ReadHaveName
    \/ ReadHaveSuppressionType
    \/ ReadHaveOptExtraInfo
    \/ EndOfInput

Spec == Init /\ [][Next]_vars


----------------------------------------------------------------------------
(* The Show implementations, and parse over an in-memory buffer.           *)

Show_Frame(f) ==
    CASE f.frame = "FrameWildcard" -> S_dots
      [] f.frame = "ObjFrame" -> S_obj \o f.glob
      [] f.frame = "FunFrame" -> S_fun \o f.glob

Show_SuppressionType(t) ==
    CASE t.type = "MemcheckAddr"    -> S_Memcheck \o <<":">> \o S_Addr \o fmt_u(t.n)
      [] t.type = "MemcheckCond"    -> S_Memcheck \o <<":">> \o S_Cond
      [] t.type = "MemcheckFree"    -> S_Memcheck \o <<":">> \o S_Free
      [] t.type = "MemcheckLeak"    -> S_Memcheck \o <<":">> \o S_Leak
      [] t.type = "MemcheckOverlap" -> S_Memcheck \o <<":">> \o S_Overlap
      [] t.type = "MemcheckParam"   -> S_Memcheck \o <<":">> \o S_Param
      [] t.type = "MemcheckValue"   -> S_Memcheck \o <<":">> \o S_Value \o fmt_u(t.n)
      [] t.type = "OtherType" ->
            <<"?">> \o t.tool_name \o <<":">> \o t.suppression_type

\* fold_(seq.iter().map(|x| writeln!(fmt, "   {}", x))): one indented line
\* per element, in order
RECURSIVE WriteLines(_)
WriteLines(ls) ==
    IF ls = <<>> THEN <<>>
    ELSE S_indent \o Head(ls) \o S_nl \o WriteLines(Tail(ls))

Show_Suppression_framesFirst(su) ==
    S_open \o S_nl
    \o S_indent \o su.name \o S_nl
    \o S_indent \o Show_SuppressionType(su.type_) \o S_nl
    \o WriteLines([i \in 1..Len(su.frames) |-> Show_Frame(su.frames[i])])
    \o (IF su.opt_extra_info.some THEN WriteLines(su.opt_extra_info.val)
        ELSE <<>>)
    \o S_close

Show_Suppression(su) ==
    S_open \o S_nl
    \o S_indent \o su.name \o S_nl
    \o S_indent \o Show_SuppressionType(su.type_) \o S_nl
    \o (IF su.opt_extra_info.some THEN WriteLines(su.opt_extra_info.val)
        ELSE <<>>)
    \o WriteLines([i \in 1..Len(su.frames) |-> Show_Frame(su.frames[i])])
    \o S_close

RECURSIVE Show_Members(_)
Show_Members(v) ==
    IF v = <<>> THEN <<>>
    ELSE Show_Suppression(Head(v)) \o S_nl \o Show_Members(Tail(v))

Show_Suppressions(c) == Show_Members(c.suppressions_)

\* Buffer::lines() over an in-memory text: the lines in order, each with
\* its terminator; a last line without terminator is yielded as it is
RECURSIVE lines(_)
lines(t) ==
    IF t = <<>> THEN <<>>
    ELSE LET p == find(t, "\n")
         IN  IF p.some
             THEN <<slice_to(t, p.val + 1)>> \o lines(slice_from(t, p.val + 1))
             ELSE <<t>>

\* the loop of parse over the lines still to read (reads never fail here)
RECURSIVE ParseLoop(_, _, _, _)
ParseLoop(rest, s, ln, supps) ==
    IF rest = <<>> THEN EndOfInputResult(s, supps)
    ELSE LET trimmed_line == trim(Head(rest))
         IN  IF IsSkipped(trimmed_line)
             THEN ParseLoop(Tail(rest), s, ln + 1, supps)
             ELSE LET out == MatchState(s, ln + 1, trimmed_line)
                  IN  IF out.ret THEN Err(out.err)
                      ELSE ParseLoop(Tail(rest), out.state, ln + 1,
                                     extend(supps, out.emit))

parse(t) == ParseLoop(lines(t), BeforeOpeningBrace, 0, <<>>)

----------------------------------------------------------------------------
(* Render, then parse again: a constructed Suppression is printed and the  *)
(* printed block is handed to parse.                                       *)

S_n  == <<"n">>
S_ab == <<"a", " ", "b">>
S_x  == <<"x">>
S_yz == <<"y", " ", "z">>
S_drd  == <<"d", "r", "d">>
S_Race == <<"R", "a", "c", "e">>

ConstructedNames == {S_n, S_ab}

ConstructedTypes ==
    { MemcheckAddr(0), MemcheckAddr(4), MemcheckAddr(MaxN),
      MemcheckValue(8), MemcheckValue(MaxN),
      MemcheckCond, MemcheckFree, MemcheckLeak, MemcheckOverlap,
      MemcheckParam,
      OtherType(S_drd, S_Race),
      OtherType(S_drd, S_Leak),
      OtherType(S_Memcheck, S_Addr \o <<"4">>),
      OtherType(S_Memcheck, S_Addr \o <<"x">>) }

ConstructedExtraInfo == {None, Some(<<S_x>>), Some(<<S_x, S_yz>>)}

ConstructedFrame == {FrameWildcard, ObjFrame(<<"a">>), FunFrame(<<"b">>)}

SeqsUpTo(S, n) == UNION {[1..k -> S] : k \in 0..n}

ConstructedSuppressions ==
    { Suppression(nm, ty, xi, fr) :
        nm \in ConstructedNames, ty \in ConstructedTypes,
        xi \in ConstructedExtraInfo,
        fr \in SeqsUpTo(ConstructedFrame, MaxFrames) }

InitParseIdle ==
    /\ state = Idle /\ lineno = 0 /\ suppressions = Idle
    /\ result = Idle /\ consumed = Idle /\ io_failed = FALSE /\ buf = Idle

InitCollIdle == self_ = Idle /\ other = Idle /\ self_old = Idle

InitCatIdle == first = Idle /\ second = Idle

InitRT ==
    /\ InitParseIdle
    /\ InitCollIdle
    /\ InitCatIdle
    /\ orig \in ConstructedSuppressions
    /\ text = Idle /\ reparsed = Idle /\ kind_in = Idle

Render ==
    /\ orig # Idle
    /\ text = Idle
    /\ text' = Show_Suppression(orig)
    /\ UNCHANGED <<orig, reparsed, kind_in, parseVars, collVars, catVars>>

Reparse ==
    /\ orig # Idle
    /\ text # Idle
    /\ reparsed = Idle
    /\ reparsed' = parse(text)
    /\ UNCHANGED <<orig, text, kind_in, parseVars, collVars, catVars>>

NextRT == Render \/ Reparse

SpecRT == InitRT /\ [][NextRT]_vars


----------------------------------------------------------------------------
(* Kind resolution: a block whose kind line is built from drawn tool names *)
(* and a drawn category is handed to parse.                                *)

S_memcheck == <<"m", "e", "m", "c", "h", "e", "c", "k">>

ToolNames == {S_Memcheck, S_memcheck, S_drd, S_Memcheck \o <<" ">>, <<>>}

\* a category text, with the form it was built in: "fixed" for the
\* parameterless Memcheck names, "AddrN"/"ValueN" for the prefix followed
\* by the decimal digits of n, "other" for everything else
Category(txt, form, n) == [txt |-> txt, form |-> form, n |-> n]

CategoryParams == {0, 4, 8, MaxN}

Categories ==
    { Category(c, "fixed", 0) :
        c \in {S_Cond, S_Free, S_Leak, S_Overlap, S_Param} }
    \cup { Category(S_Addr \o fmt_u(n), "AddrN", n) : n \in CategoryParams }
    \cup { Category(S_Value \o fmt_u(n), "ValueN", n) : n \in CategoryParams }
    \cup { Category(S_Addr \o <<"0">> \o fmt_u(4), "AddrN", 4),
           Category(S_Value \o <<"0", "0">> \o fmt_u(8), "ValueN", 8) }
    \cup { Category(c, "other", 0) :
        c \in { S_Addr, S_Value,
                S_Addr \o <<"x">>, S_Value \o <<"x">>,
                S_Addr \o <<"4", "x">>, S_Value \o <<"8", " ", "8">>,
                S_Addr \o <<" ", "4">>,
                <<"a">> \o Tail(S_Addr) \o <<"4">>,
                S_Race, <<" ">> \o S_Leak, S_Leak \o <<"s">>,
                S_Cond \o <<":">> \o S_Cond, <<>> } }

MaxTools == 2

RECURSIVE Join(_, _)
Join(parts, sep) ==
    IF parts = <<>> THEN <<>>
    ELSE IF Len(parts) = 1 THEN parts[1]
    ELSE parts[1] \o sep \o Join(Tail(parts), sep)

KindBlock(tools, cat) ==
    S_open \o S_nl
    \o S_indent \o S_n \o S_nl
    \o S_indent \o Join(tools, <<",">>) \o <<":">> \o cat.txt \o S_nl
    \o S_indent \o S_obj \o <<"a">> \o S_nl
    \o S_close \o S_nl

InitKind ==
    /\ InitParseIdle
    /\ InitCollIdle
    /\ InitCatIdle
    /\ orig = Idle
    /\ \E tools \in SeqsUpTo(ToolNames, MaxTools) \ {<<>>}, cat \in Categories :
          /\ kind_in = [tools |-> tools, cat |-> cat]
          /\ text = KindBlock(tools, cat)
    /\ reparsed = Idle

ParseKindBlock ==
    /\ kind_in # Idle
    /\ reparsed = Idle
    /\ reparsed' = parse(text)
    /\ UNCHANGED <<orig, text, kind_in, parseVars, collVars, catVars>>

NextKind == ParseKindBlock

SpecKind == InitKind /\ [][NextKind]_vars

----------------------------------------------------------------------------
(* Suppressions::add_all and Suppressions::suppressions.                   *)

RECURSIVE push_all_front(_, _)
push_all_front(v, slice) ==
    IF slice = <<>> THEN v
    ELSE push_all_front(<<Head(slice)>> \o v, Tail(slice))

\* Vec::push_all(slice): every element of the slice is cloned and pushed,
\* first to last
RECURSIVE push_all(_, _)
push_all(v, slice) ==
    IF slice = <<>> THEN v
    ELSE push_all(Append(v, Head(slice)), Tail(slice))

add_all(this, that) ==
    [this EXCEPT !.suppressions_ = push_all(@, that.suppressions_)]

\* suppressions(): the iterator over the records, drained front to back
RECURSIVE Drain(_, _)
Drain(v, pos) ==
    IF pos > Len(v) THEN <<>> ELSE <<v[pos]>> \o Drain(v, pos + 1)

suppressions_iter(this) == Drain(this.suppressions_, 1)

CollRecords ==
    { Suppression(S_n, MemcheckLeak, None, <<FrameWildcard>>),
      Suppression(S_ab, MemcheckAddr(4), Some(<<S_x>>), <<ObjFrame(<<"a">>)>>),
      Suppression(S_n, OtherType(S_drd, S_Race), None,
                  <<ObjFrame(<<"a">>), FunFrame(<<"b">>)>>),
      Suppression(S_ab, MemcheckValue(MaxN), Some(<<S_x, S_yz>>), <<>>),
      Suppression(S_x, OtherType(S_Memcheck, S_Addr \o <<"x">>), None,
                  <<FrameWildcard, FunFrame(<<"b">>)>>) }

InitColl ==
    /\ InitParseIdle
    /\ orig = Idle /\ text = Idle /\ reparsed = Idle /\ kind_in = Idle
    /\ self_ \in {Suppressions(v) : v \in SeqsUpTo(CollRecords, MaxColl)}
    /\ other \in {Suppressions(v) : v \in SeqsUpTo(CollRecords, MaxColl)}
    /\ self_old = Idle
    /\ InitCatIdle

AddAll ==
    /\ self_ # Idle
    /\ self_old = Idle
    /\ self_' = add_all(self_, other)
    /\ self_old' = self_
    /\ UNCHANGED <<other, parseVars, rtVars, catVars>>

\* the collection is printed
ShowColl ==
    /\ self_ # Idle
    /\ text = Idle
    /\ text' = Show_Suppressions(self_)
    /\ UNCHANGED <<orig, reparsed, kind_in, parseVars, collVars, catVars>>

NextColl == AddAll \/ ShowColl

SpecColl == InitColl /\ [][NextColl]_vars

----------------------------------------------------------------------------
(* Suppressions::parse reading from a buffer in memory: the printed form   *)
(* of a collection, between some leading lines and some trailing lines,    *)
(* is read one line per step.  Reads from memory do not fail.              *)

BufHeads ==
    { <<>>,
      <<"#", " ", "c", "\n", "\n">> }

BufTails ==
    { <<>>,
      <<"x", "\n">>,
      <<"{", "\n">>,
      <<"{", "\n", "}", "\n">>,
      <<"{", "\n", "n", "\n">> \o S_Memcheck \o <<":">> \o S_Leak \o S_nl
          \o S_fun \o <<"f">> \o S_nl,
      <<"{", "\n", "n", "\n">> \o S_Memcheck \o <<":">> \o S_Leak \o S_nl
          \o S_dots \o S_nl \o <<"x", "\n">>,
      <<"{", "\n", "m", "\n">> \o S_Memcheck \o <<",">> \o S_drd \o <<":">>
          \o S_Leak \o S_nl \o S_obj \o <<"a">> \o S_nl \o <<"}", "\n">> }

InitBuf ==
    /\ state = BeforeOpeningBrace
    /\ lineno = 0
    /\ suppressions = <<>>
    /\ result = NotReturned
    /\ consumed = <<>>
    /\ io_failed = FALSE
    /\ \E h \in BufHeads, t \in BufTails,
          v \in SeqsUpTo(CollRecords, MaxColl) :
          buf = lines(h \o Show_Suppressions(Suppressions(v)) \o t)
    /\ orig = Idle /\ text = Idle /\ reparsed = Idle /\ kind_in = Idle
    /\ InitCollIdle
    /\ InitCatIdle

\* Ok(line), a blank or comment line: only the line counter moves
BufSkipLine ==
    /\ Running
    /\ buf # <<>>
    /\ IsSkipped(trim(Head(buf)))
    /\ lineno' = lineno + 1
    /\ consumed' = Append(consumed, Head(buf))
    /\ buf' = Tail(buf)
    /\ UNCHANGED <<state, suppressions, result, io_failed, rtVars, collVars, catVars>>

BufReadLine_staleLineno ==
    /\ Running
    /\ buf # <<>>
    /\ ~IsSkipped(trim(Head(buf)))
    /\ LET out == MatchState(state, lineno, trim(Head(buf)))
       IN  IF out.ret
           THEN /\ result' = Err(out.err)
                /\ UNCHANGED <<state, suppressions>>
           ELSE /\ state' = out.state
                /\ suppressions' = extend(suppressions, out.emit)
                /\ UNCHANGED result
    /\ lineno' = lineno + 1
    /\ consumed' = Append(consumed, Head(buf))
    /\ buf' = Tail(buf)
    /\ UNCHANGED <<io_failed, rtVars, collVars, catVars>>

\* Ok(line), any other line: the arm of the current state
BufReadLine ==
    /\ Running
    /\ buf # <<>>
    /\ ~IsSkipped(trim(Head(buf)))
    /\ LET out == MatchState(state, lineno + 1, trim(Head(buf)))
       IN  IF out.ret
           THEN /\ result' = Err(out.err)
                /\ UNCHANGED <<state, suppressions>>
           ELSE /\ state' = out.state
                /\ suppressions' = extend(suppressions, out.emit)
                /\ UNCHANGED result
    /\ lineno' = lineno + 1
    /\ consumed' = Append(consumed, Head(buf))
    /\ buf' = Tail(buf)
    /\ UNCHANGED <<io_failed, rtVars, collVars, catVars>>

\* the buffer is exhausted: the match on the final state
BufEndOfInput ==
    /\ Running
    /\ buf = <<>>
    /\ result' = EndOfInputResult(state, suppressions)
    /\ UNCHANGED <<state, lineno, suppressions, consumed, io_failed, buf,
                   rtVars, collVars, catVars>>

NextBuf == BufSkipLine \/ BufReadLine \/ BufEndOfInput

SpecBuf == InitBuf /\ [][NextBuf]_vars

----------------------------------------------------------------------------
(* Suppressions::parse reading two texts one after the other: the buffer   *)
(* holds the bytes of the first text followed by the bytes of the second.  *)

\* a text without its last character
Unterminated(t) == SubSeq(t, 1, Len(t) - 1)

S_emptyBlock == <<"{", "\n", "}", "\n">>

S_leakBlock ==
    <<"{", "\n", "n", "\n">> \o S_Memcheck \o <<":">> \o S_Leak \o S_nl
        \o S_fun \o <<"f">> \o S_nl \o <<"}", "\n">>

S_raceBlock ==
    <<"{", "\n", "m", "\n">> \o S_Memcheck \o <<",">> \o S_drd \o <<":">>
        \o S_Race \o S_nl \o <<"q", "\n">> \o S_dots \o S_nl \o <<"}", "\n">>

\* the texts read first
CatFirsts ==
    { <<>>,
      S_emptyBlock,
      Unterminated(S_emptyBlock),
      S_leakBlock,
      Unterminated(S_leakBlock),
      S_leakBlock \o <<" ", " ">>,
      <<"#", "c">>,
      <<"#", "c", "\n", "\n">>,
      S_leakBlock \o S_raceBlock,
      <<"x", "\n">> }

\* the texts read second
CatSeconds ==
    { <<>>,
      S_emptyBlock,
      S_raceBlock,
      Unterminated(S_leakBlock),
      <<"x", "\n">>,
      <<"{", "x", "\n">>,
      <<"{", "\n", "n", "\n">>,
      <<"\n", "{", "\n", "n", "\n", "q", "\n">>,
      <<"{", "\n", "a", "}", "\n">>,
      <<"{", "\n", "n", "\n">> \o S_Memcheck \o <<":">> \o S_Leak \o S_nl
          \o S_dots \o S_nl \o <<"x", "\n">> }

InitCat ==
    /\ state = BeforeOpeningBrace
    /\ lineno = 0
    /\ suppressions = <<>>
    /\ result = NotReturned
    /\ consumed = <<>>
    /\ io_failed = FALSE
    /\ first \in CatFirsts
    /\ second \in CatSeconds
    /\ buf = lines(first \o second)
    /\ orig = Idle /\ text = Idle /\ reparsed = Idle /\ kind_in = Idle
    /\ InitCollIdle

SpecCat == InitCat /\ [][NextBuf]_vars


----------------------------------------------------------------------------
(* Vocabulary of the properties: what the input read so far says.          *)

Last(q) == q[Len(q)]

\* the trimmed, non-skipped lines among the raw lines c, in order
Content(c) ==
    SelectSeq([i \in 1..Len(c) |-> trim(c[i])], LAMBDA t : ~IsSkipped(t))

\* this step read a line from the source, and its trimmed text is t
LineRead(t) == consumed' # consumed /\ trim(Last(consumed')) = t

\* this step read a line that is neither blank nor a comment
ContentLineRead == consumed' # consumed /\ ~IsSkipped(trim(Last(consumed')))

\* the text before, and after, the first colon of a line that has one
FirstColon(l) == CHOOSE i \in 1..Len(l) : l[i] = ":" /\ \A j \in 1..(i - 1) : l[j] # ":"
BeforeColon(l) == SubSeq(l, 1, FirstColon(l) - 1)
AfterColon(l)  == SubSeq(l, FirstColon(l) + 1, Len(l))

\* the k-th of the comma-separated pieces of pre, counted from the left
CommaPositions(pre) == {i \in 1..Len(pre) : pre[i] = ","}
NthComma(pre, k) ==
    IF k = 0 THEN 0
    ELSE IF k > Cardinality(CommaPositions(pre)) THEN Len(pre) + 1
    ELSE CHOOSE p \in CommaPositions(pre) :
            Cardinality({q \in CommaPositions(pre) : q < p}) = k - 1
Piece(pre, k) == SubSeq(pre, NthComma(pre, k - 1) + 1, NthComma(pre, k) - 1)

IsFrameLine(t) ==
    t = S_dots \/ starts_with(t, S_obj) \/ starts_with(t, S_fun)

\* the frame a frame line stands for
FrameOfLine(t) ==
    IF t = S_dots THEN FrameWildcard
    ELSE IF starts_with(t, S_obj) THEN ObjFrame(trim_left(SubSeq(t, 5, Len(t))))
    ELSE FunFrame(trim_left(SubSeq(t, 5, Len(t))))

IsExtraInfoLine(t) == ~IsFrameLine(t) /\ t # S_close

\* the kind line of the block being read: the second content line after
\* the line that opened the block
KindLineOfBlock ==
    Content(SubSeq(consumed, state.opening_brace_lineno + 1, Len(consumed)))[2]

\* c is one well-formed block with a single tool name: its extra-info
\* lines are c[4..k], its frame lines c[k+1..Len(c)-1]
WellFormedSplit(c, k) ==
    /\ Len(c) >= 4
    /\ k \in 3..(Len(c) - 1)
    /\ c[1] = S_open
    /\ ~contains_char(c[2], "}")
    /\ contains_char(c[3], ":")
    /\ ~contains_char(BeforeColon(c[3]), ",")
    /\ \A i \in 4..k : IsExtraInfoLine(c[i])
    /\ \A i \in (k + 1)..(Len(c) - 1) : IsFrameLine(c[i])
    /\ c[Len(c)] = S_close

WellFormedBlock(c) == \E k \in 3..Len(c) : WellFormedSplit(c, k)

RecordOfBlock(c) ==
    LET k == CHOOSE k \in 3..Len(c) : WellFormedSplit(c, k)
    IN  Suppression(c[2],
                    ResolveType(BeforeColon(c[3]), AfterColon(c[3])),
                    IF k = 3 THEN None ELSE Some(SubSeq(c, 4, k)),
                    [i \in 1..(Len(c) - 1 - k) |-> FrameOfLine(c[k + i])])

----------------------------------------------------------------------------
(* Properties.                                                             *)

\* C1: an input that is one well-formed block with a single tool name
\* (a "{" line, a name line, a Tool:Category line, extra-info lines, frame
\* lines, a "}" line) parses to exactly one record: the trimmed name line,
\* the resolved kind, the extra-info lines in order (absent when there are
\* none) and the frames of the frame lines in order.
C1_SingleBlockParses ==
    (result.returned /\ ~io_failed /\ WellFormedBlock(Content(consumed)))
        => result = Ok(Suppressions(<<RecordOfBlock(Content(consumed))>>))

\* the block of this step ends: the parser leaves a state that holds a
\* name and a category and returns to BeforeOpeningBrace
BlockEnds ==
    /\ state.st \in {"HaveSuppressionType", "HaveOptExtraInfo"}
    /\ state'.st = "BeforeOpeningBrace"

\* the records pushed by this step are one per tool name of the kind line,
\* left to right, with the block's name, extra info and the given frames
EmitsOnePerTool(frames) ==
    LET pre == BeforeColon(KindLineOfBlock)
        cat == AfterColon(KindLineOfBlock)
        n   == 1 + Cardinality(CommaPositions(pre))
    IN  /\ Len(suppressions') = Len(suppressions) + n
        /\ SubSeq(suppressions', 1, Len(suppressions)) = suppressions
        /\ \A i \in 1..n :
              suppressions'[Len(suppressions) + i] =
                  Suppression(state.name, ResolveType(Piece(pre, i), cat),
                              state.opt_extra_info, frames)

\* C2 as stated: the end of a block whose kind line lists n tool names
\* emits exactly n records, one per tool name in order, sharing name,
\* extra info and frames.
C2_BlockEndEmitsPerTool ==
    [][BlockEnds =>
          EmitsOnePerTool(IF state.st = "HaveOptExtraInfo"
                          THEN state.frames ELSE <<>>)]_vars

\* C2 amended: the end of a block in which at least one frame line was
\* read emits exactly n records, one per tool name in order, sharing name,
\* extra info and frames.
C2_FramedBlockEndEmitsPerTool ==
    [][(BlockEnds /\ state.st = "HaveOptExtraInfo")
          => EmitsOnePerTool(state.frames)]_vars

C2_Witness ==
    /\ result.returned /\ result.ok
    /\ Len(result.val.suppressions_) = 2
    /\ result.val.suppressions_[1].type_ = MemcheckLeak
    /\ result.val.suppressions_[2].type_ = OtherType(S_drd, S_Leak)
    /\ result.val.suppressions_[1].opt_extra_info.some

\* C3 as stated: a "}" line read in HaveSuppressionType emits one record
\* per tool name with empty frames and the collected extra info, and the
\* parser returns to BeforeOpeningBrace.
C3_CloseWithoutFramesEmits ==
    [][(Running /\ state.st = "HaveSuppressionType" /\ LineRead(S_close))
          => /\ state' = BeforeOpeningBrace
             /\ EmitsOnePerTool(<<>>)]_vars

\* C3 amended: a "}" line read in HaveSuppressionType emits no record and
\* the parser returns to BeforeOpeningBrace without failing; a block with a
\* name and a category but no frames contributes nothing to the result.
C3_CloseWithoutFramesSkips ==
    [][(Running /\ state.st = "HaveSuppressionType" /\ LineRead(S_close))
          => /\ state' = BeforeOpeningBrace
             /\ suppressions' = suppressions
             /\ result' = NotReturned]_vars

C3_Witness ==
    /\ result = Ok(Suppressions(<<>>))
    /\ Len(Content(consumed)) = 5
    /\ Content(consumed)[1] = S_open
    /\ contains_char(Content(consumed)[3], ":")
    /\ IsExtraInfoLine(Content(consumed)[4])
    /\ Content(consumed)[5] = S_close

\* C4: a "}" line that directly follows the "{" line of a block (blank and
\* comment lines aside) produces no record and no error and leaves the
\* parser in BeforeOpeningBrace; the input "{", "}" parses to a collection
\* with zero records.
C4_EmptyBlock ==
    /\ [][(Running /\ state.st = "AfterOpeningBrace" /\ LineRead(S_close))
             => /\ state' = BeforeOpeningBrace
                /\ suppressions' = suppressions
                /\ result' = NotReturned]_vars
    /\ []((result.returned /\ ~io_failed
            /\ Content(consumed) = <<S_open, S_close>>)
             => result = Ok(Suppressions(<<>>)))

C4_Witness ==
    /\ result = Ok(Suppressions(<<>>))
    /\ Content(consumed) = <<S_open, S_close>>
    /\ Len(consumed) > 2

\* C5: in BeforeOpeningBrace a non-skipped line that is not exactly "{"
\* fails at that line's 1-indexed number, with "expecting an opening brace
\* on its own line" when the trimmed line starts with "{" and "expecting an
\* opening brace" otherwise.
C5_OpeningBraceExpected ==
    [][(Running /\ state.st = "BeforeOpeningBrace" /\ ContentLineRead
          /\ trim(Last(consumed')) # S_open)
          => result' = Err(ParseError(Len(consumed'),
                 Message(IF Head(trim(Last(consumed'))) = "{"
                         THEN "expecting an opening brace on its own line"
                         ELSE "expecting an opening brace")))]_vars

C5_Witness ==
    /\ result.returned /\ ~result.ok
    /\ result.err.message = Message("expecting an opening brace on its own line")
    /\ result.err.lineno = Len(consumed)
    /\ Len(consumed) > 2

\* this step is the end of the input: parse returns without a line read
\* and without a failed read
InputEnds ==
    /\ Running /\ result' # NotReturned
    /\ consumed' = consumed /\ ~io_failed'

\* the 1-indexed number of the "{" line that opened the block being read:
\* the line read when the parser left BeforeOpeningBrace
OpeningLineTracked ==
    /\ (state.st = "BeforeOpeningBrace" /\ state'.st # "BeforeOpeningBrace")
          => /\ LineRead(S_open)
             /\ state'.opening_brace_lineno = Len(consumed')
    /\ (state.st # "BeforeOpeningBrace" /\ state'.st # "BeforeOpeningBrace")
          => state'.opening_brace_lineno = state.opening_brace_lineno

\* the name of the block being read: the trimmed line read in
\* AfterOpeningBrace
NameTracked ==
    /\ (state.st = "AfterOpeningBrace" /\ state'.st = "HaveName")
          => state'.name = trim(Last(consumed'))
    /\ (state.st \in {"HaveName", "HaveSuppressionType", "HaveOptExtraInfo"}
          /\ state'.st \in {"HaveSuppressionType", "HaveOptExtraInfo"})
          => state'.name = state.name

\* C6: when the input ends in a state other than BeforeOpeningBrace, parse
\* fails at the line number of the "{" line that opened the unterminated
\* block, with the message naming the block once its name is known; when
\* it ends in BeforeOpeningBrace, parse succeeds.
C6_EndOfInput ==
    [][/\ OpeningLineTracked
       /\ NameTracked
       /\ InputEnds =>
            result' =
              CASE state.st = "BeforeOpeningBrace" -> Ok(Suppressions(suppressions))
                [] state.st = "AfterOpeningBrace" ->
                     Err(ParseError(state.opening_brace_lineno,
                         Message("unexpectedly encountered EOF while parsing a suppression")))
                [] OTHER ->
                     Err(ParseError(state.opening_brace_lineno,
                         MessageWith("unexpectedly encountered EOF while parsing the suppression named '{}'",
                                     state.name)))]_vars

C6_Witness ==
    /\ result.returned /\ ~result.ok
    /\ result.err.message =
          MessageWith("unexpectedly encountered EOF while parsing the suppression named '{}'",
                      S_n)
    /\ result.err.lineno > 1
    /\ result.err.lineno < Len(consumed) - 1
    /\ state.st = "HaveSuppressionType"


\* the raw category of an Other kind reads as a numeric Addr/Value form
IsNumericForm(c) ==
    \/ starts_with(c, S_Addr) /\ Len(c) > 4
          /\ \A i \in 5..Len(c) : IsDigit(c[i])
    \/ starts_with(c, S_Value) /\ Len(c) > 5
          /\ \A i \in 6..Len(c) : IsDigit(c[i])

\* two kinds are the same resolved variant (with the same parameter, for
\* the parameterized ones)
SameVariant(a, b) ==
    /\ a.type = b.type
    /\ a.type \in {"MemcheckAddr", "MemcheckValue"} => a.n = b.n

\* C7: rendering a constructed Suppression and parsing the rendered block
\* again gives exactly one record with the same name, the same resolved
\* kind variant, the same extra info and the same frames, except for an
\* Other kind whose raw category is a numeric Addr/Value form.
C7_RoundTrip ==
    (reparsed # Idle /\ orig # Idle
        /\ ~(orig.type_.type = "OtherType"
               /\ IsNumericForm(orig.type_.suppression_type)))
        => /\ reparsed.ok
           /\ Len(reparsed.val.suppressions_) = 1
           /\ reparsed.val.suppressions_[1].name = orig.name
           /\ SameVariant(reparsed.val.suppressions_[1].type_, orig.type_)
           /\ reparsed.val.suppressions_[1].opt_extra_info = orig.opt_extra_info
           /\ reparsed.val.suppressions_[1].frames = orig.frames

\* C8: after self.add_all(other), iterating self yields the records self
\* held before, in their order, followed by the records of other, in their
\* order, each unchanged; other is unchanged and the length of self has
\* grown by the length of other.
C8_AddAllAppends ==
    /\ [](self_old # Idle =>
            LET it  == suppressions_iter(self_)
                was == suppressions_iter(self_old)
                add == suppressions_iter(other)
            IN  /\ Len(it) = Len(was) + Len(add)
                /\ \A i \in 1..Len(was) : it[i] = was[i]
                /\ \A j \in 1..Len(add) : it[Len(was) + j] = add[j])
    /\ [][other' = other]_vars

C8_Witness ==
    /\ self_old # Idle
    /\ Len(self_old.suppressions_) = 2
    /\ Len(other.suppressions_) = 2
    /\ self_old.suppressions_[1] # other.suppressions_[1]
    /\ self_old.suppressions_[1] # self_old.suppressions_[2]
    /\ Len(self_.suppressions_) = 4

\* C9: for the tool name "Memcheck", a category Addr<digits> or
\* Value<digits> resolves to the Addr or Value kind with the integer value
\* of the digits; a category that starts with Addr or Value and continues
\* with nothing or with something that is not a non-negative integer
\* resolves to Other{"Memcheck", category}, and the parse still succeeds.
C9_MemcheckNumericKinds ==
    reparsed # Idle /\ kind_in # Idle =>
        /\ reparsed.ok
        /\ Len(reparsed.val.suppressions_) = Len(kind_in.tools)
        /\ \A i \in 1..Len(kind_in.tools) :
              kind_in.tools[i] = S_Memcheck =>
                 LET ty  == reparsed.val.suppressions_[i].type_
                     cat == kind_in.cat
                 IN  /\ cat.form = "AddrN" => ty = MemcheckAddr(cat.n)
                     /\ cat.form = "ValueN" => ty = MemcheckValue(cat.n)
                     /\ (cat.form = "other"
                           /\ (starts_with(cat.txt, S_Addr)
                                 \/ starts_with(cat.txt, S_Value)))
                          => ty = OtherType(S_Memcheck, cat.txt)

C9_Witness ==
    /\ reparsed # Idle /\ kind_in # Idle
    /\ kind_in.tools = <<S_drd, S_Memcheck>>
    /\ kind_in.cat.txt = S_Value \o <<"0", "0", "8">>
    /\ reparsed.val.suppressions_[2].type_ = MemcheckValue(8)

\* C10: the kind of an emitted record is Other exactly when the raw tool
\* name is not "Memcheck" or the raw category is none of Cond, Free, Leak,
\* Overlap, Param, Addr<N>, Value<N>; an Other kind carries the raw tool
\* name and the raw category unchanged.
C10_OtherIff ==
    reparsed # Idle /\ kind_in # Idle =>
        /\ reparsed.ok
        /\ Len(reparsed.val.suppressions_) = Len(kind_in.tools)
        /\ \A i \in 1..Len(kind_in.tools) :
              LET ty == reparsed.val.suppressions_[i].type_
              IN  /\ ty.type = "OtherType"
                        <=> (kind_in.tools[i] # S_Memcheck
                               \/ kind_in.cat.form = "other")
                  /\ ty.type = "OtherType"
                        => ty = OtherType(kind_in.tools[i], kind_in.cat.txt)

C10_Witness ==
    /\ reparsed # Idle /\ kind_in # Idle
    /\ kind_in.tools = <<S_drd, S_Memcheck>>
    /\ kind_in.cat.txt = S_Leak
    /\ reparsed.val.suppressions_[1].type_ = OtherType(S_drd, S_Leak)
    /\ reparsed.val.suppressions_[2].type_ = MemcheckLeak


\* C11: a failing parse returns a ParseError and nothing else: parse
\* returns Ok, with the records accumulated, only when the input ends in
\* BeforeOpeningBrace; every other return is an Err that carries a line
\* number and a message, whatever number of blocks were completed before.
C11_FailureReturnsOnlyDiagnostic ==
    [][(Running /\ result'.returned) =>
          IF buf = <<>> /\ state.st = "BeforeOpeningBrace"
          THEN result' = Ok(Suppressions(suppressions))
          ELSE /\ ~result'.ok
               /\ DOMAIN result' = {"returned", "ok", "err"}
               /\ DOMAIN result'.err = {"lineno", "message"}]_vars

C11_Witness ==
    /\ result.returned /\ ~result.ok
    /\ Len(suppressions) >= 2
    /\ suppressions[1].name # suppressions[2].name
    /\ result.err.lineno = Len(consumed)

\* C12: when reading the k-th line fails, parse returns at once a
\* ParseError whose message reports the read failure and whose line number
\* is k, the 1-indexed position of the line that could not be read.
C12_ReadFailureLine ==
    [][(Running /\ ~io_failed /\ io_failed') =>
          result' = Err(ParseError(Len(consumed) + 1,
                        MessageWith("IoError returned: {}", IoErrorDesc)))]_vars


\* one inner line of a printed block: three spaces, the text, a newline
Indented(l) == <<" ", " ", " ">> \o l \o <<"\n">>

\* the lines of the printed block of a record, in order
BlockLines(su) ==
    << <<"{", "\n">>,
       Indented(su.name),
       Indented(IF su.type_.type = "OtherType"
                THEN <<"?">> \o su.type_.tool_name \o <<":">>
                         \o su.type_.suppression_type
                ELSE Show_SuppressionType(su.type_)) >>
    \o (IF su.opt_extra_info.some
        THEN [i \in 1..Len(su.opt_extra_info.val) |->
                 Indented(su.opt_extra_info.val[i])]
        ELSE <<>>)
    \o [i \in 1..Len(su.frames) |-> Indented(Show_Frame(su.frames[i]))]
    \o << <<"}", "\n">> >>

RECURSIVE AllBlockLines(_)
AllBlockLines(v) ==
    IF v = <<>> THEN <<>> ELSE BlockLines(Head(v)) \o AllBlockLines(Tail(v))

\* C13: a printed Suppression is the line "{", the name, the printed kind,
\* the extra-info lines in order (none when absent), the printed frames in
\* order and the line "}", every inner line indented by three spaces; an
\* Other kind prints as ?<tool_name>:<raw_type>; a printed collection is
\* the blocks of its members in collection order.
C13_Rendering ==
    [][text' # text =>
          lines(text') = AllBlockLines(self_.suppressions_)]_vars

C13_Witness ==
    /\ text # Idle /\ self_ # Idle /\ self_old = Idle
    /\ Len(self_.suppressions_) = 2
    /\ self_.suppressions_[1].type_.type = "OtherType"
    /\ self_.suppressions_[2].opt_extra_info.some
    /\ self_.suppressions_[2].frames # <<>>
    /\ Len(lines(text)) = 12


\* a raw line that is blank, or whose first character that is not white
\* space is "#"
BlankOrComment(l) ==
    LET nw == SelectSeq(l, LAMBDA c : c \notin WhiteSpace)
    IN  nw = <<>> \/ nw[1] = "#"

\* the raw lines c without their blank and comment lines
Stripped(c) == SelectSeq(c, LAMBDA l : ~BlankOrComment(l))

\* the position in c of the k-th line that is neither blank nor a comment
NthKept(c, k) ==
    CHOOSE i \in 1..Len(c) :
        /\ ~BlankOrComment(c[i])
        /\ Cardinality({j \in 1..i : ~BlankOrComment(c[j])}) = k

\* what parse returns for the input read so far with its blank and comment
\* lines taken out
StrippedResult == ParseLoop(Stripped(consumed), BeforeOpeningBrace, 0, <<>>)

\* C14: in every state a blank or comment line changes nothing but the line
\* counter, which it increments; an input and the same input without its
\* blank and comment lines both succeed with the same records or both fail
\* with the same message, the reported line number shifted by the number of
\* such lines before the reported line.
C14_SkippedLines ==
    /\ [][(Running /\ consumed' # consumed /\ BlankOrComment(Last(consumed')))
             => /\ state' = state
                /\ suppressions' = suppressions
                /\ result' = result
                /\ lineno' = lineno + 1]_vars
    /\ []((result.returned /\ ~io_failed) =>
            IF StrippedResult.ok
            THEN result = StrippedResult
            ELSE /\ ~result.ok
                 /\ result.err.message = StrippedResult.err.message
                 /\ result.err.lineno =
                        NthKept(consumed, StrippedResult.err.lineno))

C14_Witness ==
    /\ result.returned /\ ~result.ok /\ ~io_failed
    /\ Len(consumed) >= 5 /\ result.err.lineno = Len(consumed)
    /\ BlankOrComment(consumed[1])
    /\ \E i \in 3..Len(consumed) :
          i < result.err.lineno /\ BlankOrComment(consumed[i])
    /\ StrippedResult.err.lineno = result.err.lineno - 2


\* C15: in state HaveName a content line without a colon (the line "}"
\* included) fails with "no suppression type was found" at that line;
\* a line with a colon moves the parser to HaveSuppressionType, the tool
\* names being the comma-separated pieces of the text before the first
\* colon, the category all the text after the first colon, and the extra
\* info absent.
C15_HaveNameLine ==
    [][(Running /\ state.st = "HaveName" /\ ContentLineRead) =>
          LET t == trim(Last(consumed'))
          IN  IF \A i \in 1..Len(t) : t[i] # ":"
              THEN result' = Err(ParseError(Len(consumed'),
                                   Message("no suppression type was found")))
              ELSE /\ result' = NotReturned
                   /\ state'.st = "HaveSuppressionType"
                   /\ state'.name = state.name
                   /\ Len(state'.tool_names) =
                          Cardinality(CommaPositions(BeforeColon(t))) + 1
                   /\ \A k \in 1..Len(state'.tool_names) :
                          state'.tool_names[k] = Piece(BeforeColon(t), k)
                   /\ state'.suppression_type = AfterColon(t)
                   /\ state'.opt_extra_info = None]_vars

C15_Witness ==
    /\ state.st = "HaveSuppressionType"
    /\ state.tool_names = << <<"o", "b", "j">> >>
    /\ state.suppression_type = <<"a", ":", "b">>
    /\ state.opt_extra_info = None
    /\ Len(consumed) = 3


\* this step read, in state AfterOpeningBrace, a content line that holds a
\* closing brace and is not the closing brace alone
BraceInNameRead ==
    /\ Running /\ state.st = "AfterOpeningBrace" /\ ContentLineRead
    /\ trim(Last(consumed')) # S_close
    /\ contains_char(trim(Last(consumed')), "}")

\* every record parse has emitted has a name that is not empty and holds no
\* closing brace
EmittedNamesClean ==
    \A i \in 1..Len(suppressions) :
        /\ suppressions[i].name # <<>>
        /\ ~contains_char(suppressions[i].name, "}")

\* C16: in state AfterOpeningBrace a line that contains "}" and is not
\* exactly "}" fails at that line with the message "the suppression name
\* cannot contain a closing brace", and every emitted record's name is
\* non-empty and contains no "}".
C16_BraceInNameMessage ==
    /\ [][BraceInNameRead =>
             result' = Err(ParseError(Len(consumed'),
                 Message("the suppression name cannot contain a closing brace")))]_vars
    /\ []EmittedNamesClean

\* C16, amended: the failure's message is "the suppression name cannot
\* contain a closing brace '}'", the quoted brace being part of the message;
\* the line number and the property of emitted names are as stated.
C16_BraceInNameFails ==
    /\ [][BraceInNameRead =>
             result' = Err(ParseError(Len(consumed'),
                 Message("the suppression name cannot contain a closing brace '}'")))]_vars
    /\ []EmittedNamesClean

C16_Witness ==
    /\ result.returned /\ ~result.ok
    /\ result.err.message =
           Message("the suppression name cannot contain a closing brace '}'")
    /\ result.err.lineno = Len(consumed)
    /\ Len(consumed) >= 3
    /\ Last(consumed) = <<"a", "}">>
    /\ state.st = "AfterOpeningBrace"


\* C17: in state HaveOptExtraInfo a content line that is no frame line and
\* not the closing brace fails with "invalid calling context line" at that
\* line; while the parser is in that state the extra info does not change,
\* and the records the closing brace emits carry it as it was when the
\* first frame was read.
C17_InvalidContextLine ==
    /\ [][(Running /\ state.st = "HaveOptExtraInfo" /\ ContentLineRead
              /\ IsExtraInfoLine(trim(Last(consumed'))))
             => result' = Err(ParseError(Len(consumed'),
                                Message("invalid calling context line")))]_vars
    /\ [][(state.st = "HaveOptExtraInfo" /\ state'.st = "HaveOptExtraInfo")
             => state'.opt_extra_info = state.opt_extra_info]_vars
    /\ [][(state.st = "HaveOptExtraInfo" /\ suppressions' # suppressions)
             => \A i \in (Len(suppressions) + 1)..Len(suppressions') :
                   suppressions'[i].opt_extra_info = state.opt_extra_info]_vars

C17_Witness ==
    /\ result = Err(ParseError(Len(consumed),
                      Message("invalid calling context line")))
    /\ state.st = "HaveOptExtraInfo"
    /\ state.opt_extra_info = None
    /\ Len(state.frames) = 1
    /\ IsExtraInfoLine(trim(Last(consumed)))
    /\ trim(Last(consumed)) = <<"n">>


\* the glob of a line that starts with "fun:" or "obj:"
GlobOfLine(t) == trim_left(SubSeq(t, 5, Len(t)))

\* this step read a content line that starts with "fun:"
FunLineRead ==
    Running /\ ContentLineRead /\ starts_with(trim(Last(consumed')), S_fun)

\* C18: a "fun:" line read in state HaveSuppressionType, the first frame
\* line of its block, makes ObjFrame{glob} the only frame; a "fun:" line
\* read in state HaveOptExtraInfo appends FunFrame{glob} to the frames.
C18_FunLineFrames ==
    /\ [][(FunLineRead /\ state.st = "HaveSuppressionType")
             => /\ result' = NotReturned
                /\ state'.st = "HaveOptExtraInfo"
                /\ state'.frames =
                       <<ObjFrame(GlobOfLine(trim(Last(consumed'))))>>]_vars
    /\ [][(FunLineRead /\ state.st = "HaveOptExtraInfo")
             => /\ result' = NotReturned
                /\ state'.st = "HaveOptExtraInfo"
                /\ state'.frames =
                       Append(state.frames,
                              FunFrame(GlobOfLine(trim(Last(consumed')))))]_vars

C18_Witness ==
    /\ Running
    /\ state.st = "HaveOptExtraInfo"
    /\ state.frames = <<ObjFrame(<<"b">>), FunFrame(<<"b">>)>>
    /\ Len(consumed) = 5
    /\ consumed[4] = S_fun \o <<" ", "b">>
    /\ consumed[5] = S_fun \o <<" ", "b">>


\* the lines of an optional extra info, none when it is absent
ExtraInfoLines(o) == IF o.some THEN o.val ELSE <<>>

\* C19: in state HaveSuppressionType a content line that is no frame line
\* and not the closing brace becomes the last line of the extra info, which
\* it creates when absent; the parser stays in HaveSuppressionType with the
\* name, the tool names and the category unchanged, and the extra info is
\* the run of the last content lines read, in input order.
C19_ExtraInfoAppended ==
    /\ [][(Running /\ state.st = "HaveSuppressionType" /\ ContentLineRead
              /\ IsExtraInfoLine(trim(Last(consumed'))))
             => /\ result' = NotReturned
                /\ state'.st = "HaveSuppressionType"
                /\ state'.opt_extra_info =
                       Some(Append(ExtraInfoLines(state.opt_extra_info),
                                   trim(Last(consumed'))))
                /\ state'.name = state.name
                /\ state'.tool_names = state.tool_names
                /\ state'.suppression_type = state.suppression_type
                /\ state'.opening_brace_lineno = state.opening_brace_lineno
                /\ suppressions' = suppressions]_vars
    /\ []((Running /\ state.st = "HaveSuppressionType") =>
            LET c == Content(consumed)
                e == ExtraInfoLines(state.opt_extra_info)
            IN  /\ Len(e) < Len(c)
                /\ e = SubSeq(c, Len(c) - Len(e) + 1, Len(c)))

C19_Witness ==
    /\ Running
    /\ state.st = "HaveSuppressionType"
    /\ Len(consumed) = 5
    /\ trim(consumed[4]) # trim(consumed[5])
    /\ state.opt_extra_info = Some(<<trim(consumed[4]), trim(consumed[5])>>)
    /\ state.name = trim(consumed[2])


\* the records a step that reads the line t in state s pushes: those of the
\* closing brace of a block that has frames, one per tool name in order,
\* and none for every other line
EmittedBy(s, t) ==
    IF s.st = "HaveOptExtraInfo" /\ t = S_close
    THEN [i \in 1..Len(s.tool_names) |->
             Suppression(s.name,
                         ResolveType(s.tool_names[i], s.suppression_type),
                         s.opt_extra_info, s.frames)]
    ELSE <<>>

\* C20: the records accumulated before a step are a prefix of the records
\* accumulated after it, a step that reads a line adds the records of that
\* line at the end and nothing else, and a successful parse returns the
\* collection of exactly the accumulated records, in that order.
C20_RecordsGrowAtEnd ==
    /\ [][/\ Len(suppressions') >= Len(suppressions)
          /\ SubSeq(suppressions', 1, Len(suppressions)) = suppressions]_vars
    /\ [][(Running /\ consumed' # consumed /\ ~result'.returned)
             => suppressions' =
                    suppressions \o EmittedBy(state, trim(Last(consumed')))]_vars
    /\ [][(Running /\ result'.returned /\ result'.ok)
             => /\ suppressions' = suppressions
                /\ result' = Ok(Suppressions(suppressions))]_vars

C20_Witness ==
    /\ result.returned /\ result.ok
    /\ Len(result.val.suppressions_) = 4
    /\ result.val.suppressions_[1] # result.val.suppressions_[2]
    /\ result.val.suppressions_[3] =
           Suppression(<<"m">>, MemcheckLeak, None, <<ObjFrame(<<"a">>)>>)
    /\ result.val.suppressions_[4] =
           Suppression(<<"m">>, OtherType(S_drd, S_Leak), None,
                       <<ObjFrame(<<"a">>)>>)


\* what parse returns for the first text alone, and for the second alone
FirstResult  == parse(first)
SecondResult == parse(second)

\* a state the parser is in before a block carries no data of any block
NoBlockData == state.st = "BeforeOpeningBrace" => state = BeforeOpeningBrace

\* the result of the two texts read one after the other is the one the
\* results of each text alone determine: the records of the first followed
\* by those of the second, or the failure of the second with its line
\* number moved by the number of lines of the first
Composes ==
    /\ (FirstResult.ok /\ SecondResult.ok) =>
          result = Ok(Suppressions(FirstResult.val.suppressions_
                                   \o SecondResult.val.suppressions_))
    /\ (FirstResult.ok /\ ~SecondResult.ok) =>
          result = Err(ParseError(
                       SecondResult.err.lineno + Len(lines(first)),
                       SecondResult.err.message))

\* the first text is empty or ends with a line terminator, so that the
\* second text starts on a line of its own
FirstEndsLine == first = <<>> \/ Last(first) = "\n"

\* C21: the parser is before a block with no block data after every block
\* end, and for every two inputs A and B: when both parse, A followed by B
\* parses to the records of A followed by those of B; when A parses and B
\* fails, A followed by B fails with B's message at B's line number plus
\* the number of lines of A.
C21_BlocksIndependent ==
    /\ []NoBlockData
    /\ []((result.returned /\ first # Idle) => Composes)

\* C21, amended: the same, for every A that is empty or ends with a line
\* terminator; without one, the last line of A and the first line of B are
\* read as one line.
C21_BlocksIndependentOnLineBoundary ==
    /\ []NoBlockData
    /\ []((result.returned /\ first # Idle /\ FirstEndsLine) => Composes)

C21_Witness ==
    /\ result.returned /\ ~result.ok
    /\ first = S_leakBlock \o S_raceBlock
    /\ FirstResult.ok /\ Len(FirstResult.val.suppressions_) = 3
    /\ ~SecondResult.ok
    /\ SecondResult.err.lineno = 1
    /\ result.err.lineno = 12
    /\ Len(suppressions) = 3
    /\ state.st = "HaveName"


\* the messages of the failures of the match arms
StructuralMessages ==
    { Message("expecting an opening brace on its own line"),
      Message("expecting an opening brace"),
      Message("the suppression name cannot contain a closing brace '}'"),
      Message("no suppression type was found"),
      Message("invalid calling context line") }

\* r is a failure of a match arm
IsStructural(r) ==
    r.returned /\ ~r.ok /\ r.err.message \in StructuralMessages

\* C22: a failure of a match arm carries the number, counted from 1, of the
\* last line consumed; that line is neither blank nor a comment; nothing is
\* read once parse has returned; and no proper prefix of the lines consumed
\* makes a match arm fail.
C22_StructuralFailureLine ==
    /\ [](IsStructural(result) =>
            /\ Len(consumed) >= 1
            /\ result.err.lineno = Len(consumed)
            /\ lineno = Len(consumed)
            /\ ~BlankOrComment(Last(consumed))
            /\ \A k \in 0..(Len(consumed) - 1) :
                  ~IsStructural(ParseLoop(SubSeq(consumed, 1, k),
                                          BeforeOpeningBrace, 0, <<>>)))
    /\ [][result.returned =>
             /\ consumed' = consumed
             /\ buf' = buf
             /\ lineno' = lineno]_vars

C22_Witness ==
    /\ IsStructural(result)
    /\ result.err.message = Message("invalid calling context line")
    /\ result.err.lineno = 5
    /\ Last(consumed) = <<"}", "{", "\n">>
    /\ buf = << <<"}", "\n">> >>
    /\ state.st = "HaveOptExtraInfo"


\* this step read a line that is, trimmed, the opening brace alone
OpenLineRead == Running /\ LineRead(S_open)

\* C23: a line that is exactly "{" opens a block only in state
\* BeforeOpeningBrace; inside a block it is the name in AfterOpeningBrace,
\* fails with "no suppression type was found" in HaveName, is appended to
\* the extra info in HaveSuppressionType and fails with "invalid calling
\* context line" in HaveOptExtraInfo; no step inside a block changes the
\* recorded line of the opening brace, and only a step from
\* BeforeOpeningBrace enters AfterOpeningBrace.
C23_OpenLineInsideBlock ==
    /\ [][OpenLineRead =>
             CASE state.st = "BeforeOpeningBrace" ->
                     /\ result' = NotReturned
                     /\ state' = AfterOpeningBrace(Len(consumed'))
               [] state.st = "AfterOpeningBrace" ->
                     /\ result' = NotReturned
                     /\ state' = HaveName(state.opening_brace_lineno, S_open)
               [] state.st = "HaveName" ->
                     /\ result' = Err(ParseError(Len(consumed'),
                                    Message("no suppression type was found")))
                     /\ state' = state
               [] state.st = "HaveSuppressionType" ->
                     /\ result' = NotReturned
                     /\ state' = [state EXCEPT !.opt_extra_info =
                                     Some(Append(ExtraInfoLines(@), S_open))]
               [] state.st = "HaveOptExtraInfo" ->
                     /\ result' = Err(ParseError(Len(consumed'),
                                    Message("invalid calling context line")))
                     /\ state' = state]_vars
    /\ [][(state.st # "BeforeOpeningBrace" /\ state'.st # "BeforeOpeningBrace")
             => state'.opening_brace_lineno = state.opening_brace_lineno]_vars
    /\ [][(state'.st = "AfterOpeningBrace" /\ state' # state)
             => state.st = "BeforeOpeningBrace"]_vars
    /\ [][OpenLineRead => suppressions' = suppressions]_vars

C23_Witness ==
    /\ Running
    /\ state = HaveSuppressionType(1, S_open,
                   << <<"o", "b", "j">> >>, <<"a", ":", "b">>,
                   Some(<< S_open, S_open >>))
    /\ Len(consumed) = 5
    /\ \A i \in {1, 2, 4, 5} : trim(consumed[i]) = S_open

=============================================================================
